---- MODULE Spec2Model ----
(***************************************************************************)
(* A model of chatbot.py: the Flask request handler chat(), the FAQ        *)
(* matcher rule_based_response(), the generator generate_response() with   *)
(* its generation_lock, and the sqlite log (init_db, log_interaction).     *)
(*                                                                         *)
(* Texts are TLA+ strings; TLC evaluates Len, \o, SubSeq, Head and Tail on *)
(* them as on sequences of characters.                                     *)
(***************************************************************************)
EXTENDS Integers, Sequences, FiniteSets, TLC

VARIABLES
    faqs,        \* the FAQ table loaded at import: a sequence of [key, answer], in dict order
    faqs_type,   \* the Python type of faqs: "dict", or "list" when faqs.json holds an array
    db,          \* chatbot_logs.db: [exists, columns, rows, seq]
    inits,       \* how many times init_db has run (the program's starts)
    initRaised,  \* the last run of init_db ended with an exception
    lock,        \* generation_lock: the thread holding it, or NoThread
    cookie,      \* per browser session: the signed session cookie, or NoCookie
    wasReset,    \* per browser session: the cookie was last written by a reset request
    nreq,        \* requests received so far (also the logical clock of datetime.now())
    pc,          \* per thread: where the request it serves stands
    req,         \* per thread: the request (browser session, method, form fields)
    sess,        \* per thread: flask.session of the request, [session_id, conversation]
    modified,    \* per thread: flask.session.modified
    user_input,  \* per thread: the local user_input of chat() (the stripped field)
    response,    \* per thread: the local response of chat()
    prompt,      \* per thread: the text generate_response encodes (history_str + eos_token)
    trace        \* per thread: which functions the request has called so far

vars == <<faqs, faqs_type, db, inits, initRaised, lock, cookie, wasReset, nreq, pc, req, sess, modified,
          user_input, response, prompt, trace>>

(***************************************************************************)
(* Bounds of the model.                                                    *)
(***************************************************************************)
MaxRequests == 2
MaxInits == 2

Threads == {1, 2}
Sessions == {"b1"}

NoThread == 0
NoCookie == [present |-> FALSE, session_id |-> 0, conversation |-> <<>>]

\* An optional text: Python's None, or a str
NoneVal == [some |-> FALSE, val |-> ""]
Some(x) == [some |-> TRUE, val |-> x]
\* Python's truth value of an optional text: None and '' are false
Truthy(o) == o.some /\ o.val # ""

(***************************************************************************)
(* Program constants.                                                      *)
(***************************************************************************)
MAX_INPUT_LEN == 512
FUZZY_THRESHOLD == 75
HISTORY_WINDOW == 10

EOS == "<|endoftext|>"
RESET_MSG == "Conversation reset."
TOO_LONG_MSG == "Input too long (max 512 characters). Please shorten your message."
FALLBACK_MSG == "I'm sorry, I couldn't generate a response."
\* the text of an exception of the tokenizer or the model
MODEL_ERROR == "index out of range in self"

(***************************************************************************)
(* Text helpers: str.strip, str.lower, str.translate, str.join, str.split. *)
(***************************************************************************)
Min(S) == CHOOSE x \in S : \A y \in S : x <= y
Max(S) == CHOOSE x \in S : \A y \in S : x >= y

Char(s, i) == SubSeq(s, i, i)

Whitespace == {" "}
Punctuation == {"!", "?", ".", ",", ":", "'", "(", ")", "|", "<", ">"}

RECURSIVE Rep(_, _)
Rep(s, n) ==
    IF n = 0 THEN ""
    ELSE IF n % 2 = 0 THEN LET h == Rep(s, n \div 2) IN h \o h
    ELSE s \o Rep(s, n - 1)

\* s.lstrip(), s.rstrip(), s.strip()
RECURSIVE LStrip(_)
LStrip(s) ==
    IF Len(s) > 0 /\ Char(s, 1) \in Whitespace THEN LStrip(SubSeq(s, 2, Len(s))) ELSE s

RECURSIVE RStrip(_)
RStrip(s) ==
    IF Len(s) > 0 /\ Char(s, Len(s)) \in Whitespace THEN RStrip(SubSeq(s, 1, Len(s) - 1)) ELSE s

Strip(s) == LStrip(RStrip(s))

LowerChar(c) ==
    CASE c = "H" -> "h"
      [] c = "I" -> "i"
      [] c = "T" -> "t"
      [] c = "Y" -> "y"
      [] c = "O" -> "o"
      [] c = "Z" -> "z"
      [] OTHER -> c

\* s is one character repeated
IsRun(s) == Len(s) > 0 /\ s = Rep(Char(s, 1), Len(s))

\* str.lower(): a run of one character is lowered as a whole, any other
\* text half by half
RECURSIVE Lower(_)
Lower(s) ==
    IF Len(s) = 0 THEN ""
    ELSE IF IsRun(s) THEN Rep(LowerChar(Char(s, 1)), Len(s))
    ELSE LET m == Len(s) \div 2
         IN  Lower(SubSeq(s, 1, m)) \o Lower(SubSeq(s, m + 1, Len(s)))

\* str.translate(str.maketrans('', '', string.punctuation))
RECURSIVE RemovePunctuation(_)
RemovePunctuation(s) ==
    IF Len(s) = 0 THEN ""
    ELSE IF IsRun(s) THEN (IF Char(s, 1) \in Punctuation THEN "" ELSE s)
    ELSE LET m == Len(s) \div 2
         IN  RemovePunctuation(SubSeq(s, 1, m)) \o RemovePunctuation(SubSeq(s, m + 1, Len(s)))

\* s.lower().translate(str.maketrans('', '', string.punctuation))
Clean(s) == RemovePunctuation(Lower(s))

\* ' '.join(entries)
RECURSIVE Join(_)
Join(entries) ==
    IF Len(entries) = 0 THEN ""
    ELSE IF Len(entries) = 1 THEN entries[1]
    ELSE entries[1] \o " " \o Join(Tail(entries))

\* seq[-n:]
LastN(seq, n) ==
    IF Len(seq) <= n THEN seq ELSE SubSeq(seq, Len(seq) - n + 1, Len(seq))

\* s[:n]
Prefix(s, n) == IF Len(s) <= n THEN s ELSE SubSeq(s, 1, n)

\* sub (not empty) occurs in s at place i: its first and last characters are
\* compared before the whole of it
Occurs(s, sub, i) ==
    /\ Char(s, i) = Char(sub, 1)
    /\ Char(s, i + Len(sub) - 1) = Char(sub, Len(sub))
    /\ SubSeq(s, i, i + Len(sub) - 1) = sub

\* s.find(sub, from): the first place at or after from where sub occurs
\* in s, or 0

Find(s, sub, from) ==
    LET hits == {i \in from..(Len(s) - Len(sub) + 1) : Occurs(s, sub, i)}
    IN  IF hits = {} THEN 0 ELSE Min(hits)

\* s.split(sep)[-1] for a non-empty sep: split scans left to right for
\* non-overlapping occurrences of sep; the last piece follows the last one found.
RECURSIVE SplitLastFrom(_, _, _)
SplitLastFrom(s, sep, from) ==
    LET hit == Find(s, sep, from)
    IN  IF hit = 0 THEN SubSeq(s, from, Len(s))
        ELSE SplitLastFrom(s, sep, hit + Len(sep))

SplitLast(s, sep) == SplitLastFrom(s, sep, 1)

\* decode(..., skip_special_tokens=True): the text without the end token
RECURSIVE SkipSpecial(_)
SkipSpecial(s) ==
    LET hit == Find(s, EOS, 1)
    IN  IF hit = 0 THEN s
        ELSE SubSeq(s, 1, hit - 1) \o SkipSpecial(SubSeq(s, hit + Len(EOS), Len(s)))

(***************************************************************************)
(* The fuzzy scorer of process.extractOne, on a 0..100 scale: the          *)
(* normalised insertion/deletion similarity 200 * lcs / (|a| + |b|), and 0 *)
(* when either text is empty.                                              *)
(***************************************************************************)
RECURSIVE Subsequences(_)
Subsequences(s) ==
    IF Len(s) = 0 THEN {""}
    ELSE LET rest == Subsequences(Tail(s))
         IN  rest \cup {Head(s) \o x : x \in rest}

RECURSIVE IsSubsequenceFrom(_, _, _)
IsSubsequenceFrom(x, a, from) ==
    IF Len(x) = 0 THEN TRUE
    ELSE LET hit == Find(a, Head(x), from)
         IN  hit # 0 /\ IsSubsequenceFrom(Tail(x), a, hit + 1)

\* the characters of s
RECURSIVE Alphabet(_)
Alphabet(s) ==
    IF Len(s) = 0 THEN {}
    ELSE IF IsRun(s) THEN {Char(s, 1)}
    ELSE LET m == Len(s) \div 2
         IN  Alphabet(SubSeq(s, 1, m)) \cup Alphabet(SubSeq(s, m + 1, Len(s)))

\* s without the characters that are not in keep
RECURSIVE Restrict(_, _)
Restrict(s, keep) ==
    IF Len(s) = 0 THEN ""
    ELSE (IF Head(s) \in keep THEN Head(s) ELSE "") \o Restrict(Tail(s), keep)

\* length of a longest common subsequence: the longest subsequence of the
\* shorter text (without the characters the longer one lacks) that is a
\* subsequence of the longer one
Lcs(a, b) ==
    LET short  == IF Len(a) <= Len(b) THEN a ELSE b
        long   == IF Len(a) <= Len(b) THEN b ELSE a
        shared == Restrict(short, Alphabet(long))
    IN  Max({Len(x) : x \in {y \in Subsequences(shared) : IsSubsequenceFrom(y, long, 1)}})

Score(a, b) ==
    IF Len(a) = 0 \/ Len(b) = 0 THEN 0
    ELSE (200 * Lcs(a, b)) \div (Len(a) + Len(b))

(***************************************************************************)
(* rule_based_response                                                     *)
(***************************************************************************)
FaqKeys(table) == [i \in 1..Len(table) |-> table[i].key]

\* process.extractOne(query, choices): the first choice with the highest
\* score, as [choice, score, index] (index from 1 here, from 0 in Python)
ExtractOne(query, choices) ==
    IF Len(choices) = 0 THEN [found |-> FALSE, choice |-> "", score |-> 0, index |-> 0]
    ELSE LET scores == [i \in 1..Len(choices) |-> Score(query, choices[i])]
             top    == Max({scores[i] : i \in 1..Len(choices)})
             best   == Min({i \in 1..Len(choices) : scores[i] = top})
         IN  [found |-> TRUE, choice |-> choices[best], score |-> top, index |-> best]

RuleBasedResponse(table, text) ==
    IF Len(table) = 0 THEN NoneVal
    ELSE LET input_clean == Clean(text)
             keys        == FaqKeys(table)
             best_match  == ExtractOne(input_clean, [i \in 1..Len(keys) |-> Clean(keys[i])])
         IN  IF best_match.found /\ best_match.score >= FUZZY_THRESHOLD
             THEN Some(table[best_match.index].answer)
             ELSE NoneVal

(***************************************************************************)
(* The log store: init_db and log_interaction                              *)
(***************************************************************************)
LOG_COLUMNS == <<"id", "session_id", "user_input", "bot_response", "timestamp">>
LEGACY_COLUMNS == <<"id", "user_input", "bot_response", "timestamp">>

\* no database file yet
FreshDb == [exists |-> FALSE, columns |-> <<>>, rows |-> <<>>, seq |-> 0]
\* a table written before the session_id column was introduced, holding one row
LegacyDb ==
    [exists |-> TRUE, columns |-> LEGACY_COLUMNS, seq |-> 1,
     rows |-> << [id |-> 1, session_id |-> 0, user_input |-> "old",
                  bot_response |-> "old", timestamp |-> 0] >>]

HasColumn(d, c) == \E i \in 1..Len(d.columns) : d.columns[i] = c

\* CREATE TABLE IF NOT EXISTS logs (...)
CreateTableIfNotExists(d) ==
    IF d.exists THEN d
    ELSE [exists |-> TRUE, columns |-> LOG_COLUMNS, rows |-> <<>>, seq |-> 0]

\* (mutant) the column is added without sqlite's duplicate check
AddSessionIdColumnUnchecked(d) ==
    [db |-> [d EXCEPT !.columns = Append(@, "session_id")], error |-> FALSE]

\* ALTER TABLE logs ADD COLUMN session_id TEXT: sqlite3.OperationalError
\* (duplicate column name) when the column is there
AddSessionIdColumn(d) ==
    IF HasColumn(d, "session_id")
    THEN [db |-> d, error |-> TRUE]
    ELSE [db |-> [d EXCEPT !.columns = Append(@, "session_id")], error |-> FALSE]

\* init_db: the database it leaves, and whether an exception leaves it
InitDbResult(d) ==
    LET created == CreateTableIfNotExists(d)
        altered == AddSessionIdColumn(created)
    IN  [db |-> altered.db, raised |-> FALSE]

StorageFaults == {"none", "connect", "insert", "commit"}

\* INSERT INTO logs (session_id, user_input, bot_response, timestamp): fails
\* without the table or without one of the named columns
CanInsert(d) ==
    /\ d.exists
    /\ \A c \in {"session_id", "user_input", "bot_response", "timestamp"} : HasColumn(d, c)

\* (mutant) log_interaction without conn.commit(): close() drops the insert
LogInteractionNoCommit(d, session_id, text, bot_response, now, fault) ==
    [db |-> d, stored |-> FALSE, raised |-> fault = "connect"]

\* (mutant) the insert replaces the rows of the table
LogInteractionReplacing(d, session_id, text, bot_response, now, fault) ==
    IF fault # "none" \/ ~CanInsert(d) THEN [db |-> d, stored |-> FALSE, raised |-> fault = "connect"]
    ELSE [db |-> [d EXCEPT !.seq = @ + 1,
                           !.rows = << [id |-> d.seq + 1,
                                        session_id |-> session_id,
                                        user_input |-> Prefix(text, MAX_INPUT_LEN),
                                        bot_response |-> bot_response,
                                        timestamp |-> now] >>],
          stored |-> TRUE, raised |-> FALSE]

\* log_interaction: the database it leaves, whether the row was stored, and
\* whether an exception leaves it. A failing connect leaves conn unbound, so
\* conn.close() in the finally clause raises UnboundLocalError.
LogInteraction(d, session_id, text, bot_response, now, fault) ==
    IF fault = "connect" THEN [db |-> d, stored |-> FALSE, raised |-> TRUE]
    ELSE IF fault = "insert" \/ ~CanInsert(d) THEN [db |-> d, stored |-> FALSE, raised |-> FALSE]
    ELSE IF fault = "commit" THEN [db |-> d, stored |-> FALSE, raised |-> FALSE]
    ELSE [db |-> [d EXCEPT !.seq = @ + 1,
                           !.rows = Append(@, [id |-> d.seq + 1,
                                               session_id |-> session_id,
                                               user_input |-> Prefix(text, MAX_INPUT_LEN),
                                               bot_response |-> bot_response,
                                               timestamp |-> now])],
          stored |-> TRUE, raised |-> FALSE]

(***************************************************************************)
(* The inputs the model draws from.                                        *)
(***************************************************************************)
\* faqs.json: absent (or empty), or a table of two questions, one of them
\* with an empty answer
EmptyFaqs == <<>>
SampleFaqs == << [key |-> "Hi?", answer |-> "hello there"],
                 [key |-> "Yo", answer |-> ""] >>
FaqTables == {EmptyFaqs, SampleFaqs}

\* faqs.json: absent, not JSON, a JSON object of questions and answers, or
\* JSON of another shape (an array of questions)
NoFile == [exists |-> FALSE, parses |-> FALSE, type |-> "dict", items |-> <<>>]
BrokenFile == [exists |-> TRUE, parses |-> FALSE, type |-> "dict", items |-> <<>>]
ObjectFile(table) == [exists |-> TRUE, parses |-> TRUE, type |-> "dict", items |-> table]
ArrayFile == [exists |-> TRUE, parses |-> TRUE, type |-> "list", items |-> <<"Hi?">>]
FaqFiles == {NoFile, BrokenFile, ArrayFile} \cup {ObjectFile(table) : table \in FaqTables}

\* lines 25-32: faqs = {} unless the file exists and json.load returns, and
\* then whatever json.load returned
LoadFaqs(file) ==
    IF file.exists /\ file.parses
    THEN [type |-> file.type, items |-> file.items]
    ELSE [type |-> "dict", items |-> <<>>]

\* values of the form field user_input
Z512 == Rep("z", MAX_INPUT_LEN)
FormInputs == {"", " Hit! ", "yo", Z512 \o " ", Z512 \o "z"}

\* the text model.generate adds to the prompt
Replies == {"", " ok"}

(***************************************************************************)
(* generate_response, after the FAQ check                                  *)
(***************************************************************************)
\* history_str + tokenizer.eos_token
BuildPrompt(conversation_history, text) ==
    Join(LastN(conversation_history, HISTORY_WINDOW)) \o " " \o text \o EOS

\* tokenizer.decode(outputs[0], skip_special_tokens=True).split(user_input)[-1].strip(),
\* or the fallback text; split raises ValueError on an empty separator
DecodeResponse(out, text) ==
    IF text = "" THEN [raised |-> TRUE, val |-> "empty separator"]
    ELSE LET r == Strip(SplitLast(SkipSpecial(out), text))
         IN  [raised |-> FALSE, val |-> IF r # "" THEN r ELSE FALLBACK_MSG]

ErrorResponse(e) == "Error generating response: " \o e \o ". Please try again."

(***************************************************************************)
(* Initial state                                                           *)
(***************************************************************************)
NoRequest ==
    [session |-> "", method |-> "", form_input |-> "", reset |-> FALSE,
     cookie |-> NoCookie, after_reset |-> FALSE, uuid |-> 0]
NoSession == [session_id |-> 0, conversation |-> <<>>]

Init ==
    /\ \E file \in FaqFiles : /\ faqs = LoadFaqs(file).items
                              /\ faqs_type = LoadFaqs(file).type
    /\ db \in {FreshDb, LegacyDb}
    /\ inits = 0
    /\ initRaised = FALSE
    /\ lock = NoThread
    /\ cookie = [s \in Sessions |-> NoCookie]
    /\ wasReset = [s \in Sessions |-> FALSE]
    /\ nreq = 0
    /\ pc = [t \in Threads |-> "idle"]
    /\ req = [t \in Threads |-> NoRequest]
    /\ sess = [t \in Threads |-> NoSession]
    /\ modified = [t \in Threads |-> FALSE]
    /\ user_input = [t \in Threads |-> ""]
    /\ response = [t \in Threads |-> NoneVal]
    /\ prompt = [t \in Threads |-> ""]
    /\ trace = [t \in Threads |-> {}]

(***************************************************************************)
(* The program starts (lines 150-153): init_db runs before the server      *)
(* takes requests, and again at every restart, when no request is served.  *)
(***************************************************************************)
InitDb ==
    /\ inits < MaxInits
    /\ \A t \in Threads : pc[t] = "idle"
    /\ db' = InitDbResult(db).db
    /\ initRaised' = InitDbResult(db).raised
    /\ inits' = inits + 1
    /\ UNCHANGED <<faqs, faqs_type, lock, cookie, wasReset, nreq, pc, req, sess, modified,
                   user_input, response, prompt, trace>>

(***************************************************************************)
(* A request arrives: the browser sends the form and its session cookie,   *)
(* and a server thread takes it.                                           *)
(***************************************************************************)
Arrive(t, s, method, form_input, reset) ==
    /\ inits > 0 /\ ~initRaised
    /\ pc[t] = "idle"
    \* the request goes to the first free thread
    /\ \A u \in Threads : u < t => pc[u] # "idle"
    /\ nreq < MaxRequests
    /\ nreq' = nreq + 1
    /\ req' = [req EXCEPT ![t] =
                 [session |-> s, method |-> method, form_input |-> form_input,
                  reset |-> reset, cookie |-> cookie[s], after_reset |-> wasReset[s],
                  uuid |-> nreq + 1]]
    /\ pc' = [pc EXCEPT ![t] = "chat"]
    /\ UNCHANGED <<faqs, faqs_type, db, inits, initRaised, lock, cookie, wasReset, sess, modified, user_input,
                   response, prompt, trace>>

(***************************************************************************)
(* chat(): from its entry to the return of the FAQ check in                *)
(* generate_response (lines 126-141, 81-83)                                *)
(***************************************************************************)
\* (mutant) no length test
TooLongIgnored(text) == FALSE

\* (mutant) the limit off by one
TooLongOffByOne(text) == Len(text) > MAX_INPUT_LEN + 1

\* len(user_input) > 512
TooLong(text) == Len(text) > MAX_INPUT_LEN

\* (mutant) the length test taken before the reset test
ResetRequestedAfterLengthTest(r) == r.reset /\ ~TooLong(Strip(r.form_input))

\* 'reset' in request.form
ResetRequested(r) == r.reset

\* rule_based_response on a non-empty value that is no dict: faqs.keys()
\* raises AttributeError, outside the try of generate_response
KeysRaises(type, table) == Len(table) > 0 /\ type # "dict"

\* what generate_response does first: the FAQ answer, when there is a true one
FaqAnswer(table, text) ==
    LET rule_response == RuleBasedResponse(table, text)
    IN  IF Truthy(rule_response) THEN rule_response ELSE NoneVal

Chat(t) ==
    LET ck       == req[t].cookie
        \* session['session_id'] = str(uuid.uuid4()); session['conversation'] = []
        session0 == IF ck.present
                    THEN [session_id |-> ck.session_id, conversation |-> ck.conversation]
                    ELSE [session_id |-> req[t].uuid, conversation |-> <<>>]
        text     == Strip(req[t].form_input)
        turn     == Append(session0.conversation, "User: " \o text)
        answer   == FaqAnswer(faqs, text)
    IN
    /\ pc[t] = "chat"
    /\ modified' = [modified EXCEPT ![t] =
                      ~ck.present \/ (req[t].method = "POST" /\ ResetRequested(req[t]))]
    /\ IF req[t].method = "GET" THEN
           /\ sess' = [sess EXCEPT ![t] = session0]
           /\ user_input' = [user_input EXCEPT ![t] = ""]
           /\ response' = [response EXCEPT ![t] = NoneVal]
           /\ trace' = [trace EXCEPT ![t] = {}]
           /\ pc' = [pc EXCEPT ![t] = "respond"]
       ELSE IF ResetRequested(req[t]) THEN
           /\ sess' = [sess EXCEPT ![t] = [session0 EXCEPT !.conversation = <<>>]]
           /\ user_input' = [user_input EXCEPT ![t] = text]
           /\ response' = [response EXCEPT ![t] = Some(RESET_MSG)]
           /\ trace' = [trace EXCEPT ![t] = {}]
           /\ pc' = [pc EXCEPT ![t] = "respond"]
       ELSE IF TooLong(text) THEN
           /\ sess' = [sess EXCEPT ![t] = session0]
           /\ user_input' = [user_input EXCEPT ![t] = text]
           /\ response' = [response EXCEPT ![t] = Some(TOO_LONG_MSG)]
           /\ trace' = [trace EXCEPT ![t] = {}]
           /\ pc' = [pc EXCEPT ![t] = "respond"]
       ELSE IF KeysRaises(faqs_type, faqs) THEN
           \* the user turn is appended, then the exception leaves chat()
           /\ sess' = [sess EXCEPT ![t] = [session0 EXCEPT !.conversation = turn]]
           /\ user_input' = [user_input EXCEPT ![t] = text]
           /\ response' = [response EXCEPT ![t] = NoneVal]
           /\ trace' = [trace EXCEPT ![t] = {"keys"}]
           /\ pc' = [pc EXCEPT ![t] = "error"]
       ELSE
           \* session['conversation'].append(...) changes the list in place and
           \* does not set session.modified
           /\ sess' = [sess EXCEPT ![t] = [session0 EXCEPT !.conversation = turn]]
           /\ user_input' = [user_input EXCEPT ![t] = text]
           /\ trace' = [trace EXCEPT ![t] = {"faq"}]
           /\ response' = [response EXCEPT ![t] = answer]
           /\ pc' = [pc EXCEPT ![t] = IF answer.some THEN "bot" ELSE "acquire"]
    /\ UNCHANGED <<faqs, faqs_type, db, inits, initRaised, lock, cookie, wasReset, nreq, req, prompt>>

(***************************************************************************)
(* generate_response: the section under generation_lock (lines 86-104)     *)
(***************************************************************************)
\* (mutant) the model call entered without waiting for the lock
AcquireWithoutWaiting(t) ==
    /\ pc[t] = "acquire"
    /\ lock' = t
    /\ pc' = [pc EXCEPT ![t] = "model"]
    /\ trace' = [trace EXCEPT ![t] = @ \cup {"lock"}]
    /\ UNCHANGED <<faqs, faqs_type, db, inits, initRaised, cookie, wasReset, nreq, req, sess,
                   modified, user_input, response, prompt>>

\* with generation_lock: blocks until the lock is free
Acquire(t) ==
    /\ pc[t] = "acquire"
    /\ lock = NoThread
    /\ lock' = t
    /\ pc' = [pc EXCEPT ![t] = "model"]
    /\ trace' = [trace EXCEPT ![t] = @ \cup {"lock"}]
    /\ UNCHANGED <<faqs, faqs_type, db, inits, initRaised, cookie, wasReset, nreq, req, sess, modified,
                   user_input, response, prompt>>

\* (mutant) the exception leaves the section with the lock still held
RaiseHoldingLock(t, e) ==
    /\ lock' = lock
    /\ response' = [response EXCEPT ![t] = Some(ErrorResponse(e))]
    /\ trace' = [trace EXCEPT ![t] = @ \cup {"model", "raised"}]
    /\ pc' = [pc EXCEPT ![t] = "bot"]

\* an exception inside the with block: the lock is released on the way out
\* and the except clause returns the apology
Raise(t, e) ==
    /\ lock' = NoThread
    /\ response' = [response EXCEPT ![t] = Some(ErrorResponse(e))]
    /\ trace' = [trace EXCEPT ![t] = @ \cup {"model", "raised"}]
    /\ pc' = [pc EXCEPT ![t] = "bot"]

\* leaving the with block by return: the lock is released
Return(t, r) ==
    /\ lock' = NoThread
    /\ response' = [response EXCEPT ![t] = Some(r)]
    /\ trace' = [trace EXCEPT ![t] = @ \cup {"model"}]
    /\ pc' = [pc EXCEPT ![t] = "bot"]

\* lines 89-102: the prompt, model.generate and the new suffix of its output
ModelCall(t) ==
    /\ pc[t] = "model"
    /\ prompt' = [prompt EXCEPT ![t] = BuildPrompt(sess[t].conversation, user_input[t])]
    /\ \/ \E reply \in Replies :
            LET r == DecodeResponse(prompt'[t] \o reply \o EOS, user_input[t])
            IN  IF r.raised THEN Raise(t, r.val) ELSE Return(t, r.val)
       \/ Raise(t, MODEL_ERROR)
    /\ UNCHANGED <<faqs, faqs_type, db, inits, initRaised, cookie, wasReset, nreq, req, sess,
                   modified, user_input>>

(***************************************************************************)
(* chat(): lines 142-147, the bot turn and the log                         *)
(***************************************************************************)
\* (mutant) or instead of and
ShouldLogEither(text, resp) == text # "" \/ Truthy(resp)

\* if user_input and response
ShouldLog(text, resp) == text # "" /\ Truthy(resp)

BotTurn(t) ==
    /\ pc[t] = "bot"
    /\ sess' = [sess EXCEPT ![t].conversation = Append(@, "Bot: " \o response[t].val)]
    /\ IF ShouldLog(user_input[t], response[t])
       THEN \E fault \in StorageFaults :
              LET r == LogInteraction(db, sess[t].session_id, user_input[t],
                                      response[t].val, nreq, fault)
              IN  /\ db' = r.db
                  /\ trace' = [trace EXCEPT ![t] =
                                 @ \cup {"log"}
                                   \cup (IF r.stored THEN {"row"} ELSE {})
                                   \cup (IF fault # "none" \/ ~CanInsert(db) THEN {"fault"} ELSE {})]
                  /\ pc' = [pc EXCEPT ![t] = IF r.raised THEN "error" ELSE "respond"]
       ELSE /\ pc' = [pc EXCEPT ![t] = "respond"]
            /\ UNCHANGED <<db, trace>>
    /\ UNCHANGED <<faqs, faqs_type, inits, initRaised, lock, cookie, wasReset, nreq, req, modified,
                   user_input, response, prompt>>

(***************************************************************************)
(* The end of the request: Flask saves the session cookie when             *)
(* session.modified is set, that is when a key was assigned.               *)
(***************************************************************************)
SaveSession(t) ==
    /\ cookie' = [cookie EXCEPT ![req[t].session] =
                    [present |-> TRUE, session_id |-> sess[t].session_id,
                     conversation |-> sess[t].conversation]]
    /\ wasReset' = [wasReset EXCEPT ![req[t].session] =
                      req[t].method = "POST" /\ req[t].reset]

\* the thread is free for the next request
Release(t) ==
    /\ pc' = [pc EXCEPT ![t] = "idle"]
    /\ req' = [req EXCEPT ![t] = NoRequest]
    /\ sess' = [sess EXCEPT ![t] = NoSession]
    /\ modified' = [modified EXCEPT ![t] = FALSE]
    /\ user_input' = [user_input EXCEPT ![t] = ""]
    /\ response' = [response EXCEPT ![t] = NoneVal]
    /\ prompt' = [prompt EXCEPT ![t] = ""]
    /\ trace' = [trace EXCEPT ![t] = {}]

\* line 148: the page is rendered and returned
Respond(t) ==
    /\ pc[t] = "respond"
    /\ IF modified[t] THEN SaveSession(t) ELSE UNCHANGED <<cookie, wasReset>>
    /\ Release(t)
    /\ UNCHANGED <<faqs, faqs_type, db, inits, initRaised, lock, nreq>>

\* an exception leaves chat(): in debug mode (line 152) it propagates to the
\* server and the session is not saved; otherwise Flask answers 500 and
\* saves the session as for any response
ServerError(t) ==
    /\ pc[t] = "error"
    /\ \E debug_mode \in BOOLEAN :
         IF modified[t] /\ ~debug_mode
         THEN SaveSession(t)
         ELSE UNCHANGED <<cookie, wasReset>>
    /\ Release(t)
    /\ UNCHANGED <<faqs, faqs_type, db, inits, initRaised, lock, nreq>>

Next ==
    \/ InitDb
    \/ \E t \in Threads, s \in Sessions, form_input \in FormInputs, reset \in BOOLEAN :
         Arrive(t, s, "POST", form_input, reset)
    \/ \E t \in Threads, s \in Sessions : Arrive(t, s, "GET", "", FALSE)
    \/ \E t \in Threads : Chat(t)
    \/ \E t \in Threads : Acquire(t)
    \/ \E t \in Threads : ModelCall(t)
    \/ \E t \in Threads : BotTurn(t)
    \/ \E t \in Threads : Respond(t)
    \/ \E t \in Threads : ServerError(t)

Spec == Init /\ [][Next]_vars

\* the model call of thread t comes to its end, by return or by exception:
\* the step ModelCall(t) takes, which is possible whenever t is in the section
ModelCallEnds(t) == pc[t] = "model" /\ pc' = [pc EXCEPT ![t] = "bot"]

\* Each model call terminates, and a thread waiting for a lock that stays
\* free gets it. threading.Lock promises no order among waiting threads, and
\* nothing is assumed about the other steps of a request.
Fairness ==
    \A t \in Threads : WF_vars(Acquire(t)) /\ WF_pc(ModelCallEnds(t))

LiveSpec == Init /\ [][Next]_vars /\ Fairness

(***************************************************************************)
(* Properties                                                              *)
(***************************************************************************)
\* the request of thread t is a turn: a POST without reset, not rejected as
\* oversized, for which the FAQ check of generate_response has returned
Turn(t) == "faq" \in trace[t]

\* chat() of thread t has run to its return statement, or has raised
Finished(t) == pc[t] \in {"respond", "error"}

\* chat() of thread t has run past its branches
Handled(t) == pc[t] \notin {"idle", "chat"}

PostNoReset(t) == req[t].method = "POST" /\ ~req[t].reset

\* the best fuzzy match of a text against the normalised FAQ keys
BestMatch(text) ==
    ExtractOne(Clean(text), [i \in 1..Len(faqs) |-> Clean(faqs[i].key)])

\* the log holds a row with the session id, input and response of thread t
Logged(t) ==
    \E i \in 1..Len(db.rows) :
        /\ db.rows[i].session_id = sess[t].session_id
        /\ db.rows[i].user_input = user_input[t]
        /\ db.rows[i].bot_response = response[t].val

\* C1: at most one thread at a time is inside the model-call section, and a
\* thread inside it holds generation_lock.
C1_MutualExclusion ==
    \A t, u \in Threads :
        /\ (pc[t] = "model" /\ pc[u] = "model") => t = u
        /\ pc[t] = "model" => lock = t

\* one thread is inside the section while the other waits for the lock
C1_Witness ==
    \E t, u \in Threads : t # u /\ pc[t] = "model" /\ pc[u] = "acquire"

\* C2: whenever the best fuzzy score of the input is at least 75, the request
\* gets exactly the answer stored under the best key and never takes the lock
\* nor reaches the model call.
C2_FaqAnswerBypassesGenerator ==
    \A t \in Threads :
        (Turn(t) /\ Len(faqs) > 0 /\ BestMatch(user_input[t]).score >= FUZZY_THRESHOLD)
        => /\ "lock" \notin trace[t]
           /\ pc[t] \notin {"acquire", "model"}
           /\ response[t] = Some(faqs[BestMatch(user_input[t]).index].answer)

\* C3 as stated: every turn without an FAQ match has invoked the model call
\* and has its row (session id, input, response) in the log when it ends.
C3_UnmatchedIsGeneratedAndLogged ==
    \A t \in Threads :
        (Finished(t) /\ Turn(t) /\ ~RuleBasedResponse(faqs, user_input[t]).some)
        => "model" \in trace[t] /\ Logged(t)

\* C3 as amended: every turn without an FAQ match has invoked the model call
\* when it ends; if its stripped input is not empty it has called
\* log_interaction, and its row is in the log unless the storage failed.
C3_UnmatchedIsGeneratedAndLoggedUnlessStorageFails ==
    \A t \in Threads :
        (Finished(t) /\ Turn(t) /\ ~RuleBasedResponse(faqs, user_input[t]).some)
        => /\ "model" \in trace[t]
           /\ user_input[t] # "" =>
                /\ "log" \in trace[t]
                /\ "fault" \notin trace[t] => ("row" \in trace[t] /\ Logged(t))

\* a turn without FAQ match, with a stored FAQ table, has been generated and logged
C3_Witness ==
    \E t \in Threads :
        /\ Finished(t) /\ Turn(t) /\ Len(faqs) > 0
        /\ ~RuleBasedResponse(faqs, user_input[t]).some
        /\ "model" \in trace[t] /\ "row" \in trace[t] /\ Logged(t)

\* C4 as stated: a POST without reset whose user_input field has 513 or more
\* characters gets the fixed rejection, and calls neither the FAQ matcher nor
\* the model nor log_interaction.
C4_OversizedFieldRejected ==
    \A t \in Threads :
        (Handled(t) /\ PostNoReset(t) /\ Len(req[t].form_input) >= MAX_INPUT_LEN + 1)
        => /\ response[t] = Some(TOO_LONG_MSG)
           /\ trace[t] = {}
           /\ pc[t] = "respond"

\* C4 as amended: a POST without reset whose user_input field has 513 or more
\* characters after stripping gets the fixed rejection, and calls neither the
\* FAQ matcher nor the model nor log_interaction.
C4_OversizedStrippedInputRejected ==
    \A t \in Threads :
        (Handled(t) /\ PostNoReset(t)
                    /\ Len(Strip(req[t].form_input)) >= MAX_INPUT_LEN + 1)
        => /\ response[t] = Some(TOO_LONG_MSG)
           /\ trace[t] = {}
           /\ pc[t] = "respond"

\* an oversized request has been rejected
C4_Witness ==
    \E t \in Threads :
        /\ pc[t] = "respond" /\ PostNoReset(t)
        /\ Len(Strip(req[t].form_input)) >= MAX_INPUT_LEN + 1
        /\ response[t] = Some(TOO_LONG_MSG)

\* C5: the prompt built for a request that follows a reset of its session
\* holds no transcript entry: it is the new input and the end token.
C5_ResetEmptiesPrompt ==
    \A t \in Threads :
        ("model" \in trace[t] /\ req[t].after_reset)
        => prompt[t] \in {BuildPrompt(<<>>, user_input[t]), user_input[t] \o EOS}

\* C6: when a step of the model call fails, the response is the apology with
\* the error text, and the handler goes on to return it.
C6_GenerationFailuresNeverEscape ==
    \A t \in Threads :
        "raised" \in trace[t]
        => /\ pc[t] \in {"bot", "respond"}
           /\ response[t].val # ""
           /\ response[t] \in {Some(ErrorResponse(e)) : e \in {MODEL_ERROR, "empty separator"}}

\* C7: whatever storage failure log_interaction meets, it returns and the
\* handler goes on to return its response.
C7_LoggingFailuresNeverEscape ==
    \A t \in Threads : "log" \in trace[t] => pc[t] = "respond"

\* the stripped input and the response of thread t are both non-empty
BothNonEmpty(t) ==
    /\ user_input[t] # ""
    /\ response[t].some /\ response[t].val # ""

\* the rows of the log grow by exactly one in this step
OneRowAppended ==
    /\ Len(db'.rows) = Len(db.rows) + 1
    /\ SubSeq(db'.rows, 1, Len(db.rows)) = db.rows

\* C8 as stated: the step of chat() that follows generate_response appends
\* exactly one row when stripped input and response are both non-empty; no
\* other step of a request (reset, rejection, skipped logging) changes the rows.
C8_LoggedExactlyWhenBothNonEmpty ==
    [][IF \E t \in Threads : /\ pc[t] = "bot" /\ pc'[t] # "bot"
                             /\ BothNonEmpty(t)
       THEN OneRowAppended
       ELSE db'.rows = db.rows]_vars

\* C8 as amended: exactly one row is appended when stripped input and
\* response are both non-empty and the storage does not fail; no row otherwise.
C8_LoggedExactlyWhenBothNonEmptyAndStored ==
    [][IF \E t \in Threads : /\ pc[t] = "bot" /\ pc'[t] # "bot"
                             /\ BothNonEmpty(t)
                             /\ "fault" \notin trace'[t]
       THEN OneRowAppended
       ELSE db'.rows = db.rows]_vars

\* a turn with an empty input was not logged while the log already holds the
\* row of another turn
C8_Witness ==
    \E t \in Threads :
        /\ pc[t] = "respond" /\ Turn(t) /\ user_input[t] = ""
        /\ "log" \notin trace[t]
        /\ \E i \in 1..Len(db.rows) : db.rows[i].session_id # 0

\* C9: a request whose input matches an FAQ key never takes nor waits for
\* generation_lock.
C9_FaqRequestsNeverTakeLock ==
    \A t \in Threads :
        (Turn(t) /\ RuleBasedResponse(faqs, user_input[t]).some)
        => "lock" \notin trace[t] /\ pc[t] # "acquire"

\* the table has the five columns, each once
ColumnsOnce(d) ==
    /\ Len(d.columns) = Len(LOG_COLUMNS)
    /\ {d.columns[i] : i \in 1..Len(d.columns)} = {LOG_COLUMNS[i] : i \in 1..Len(LOG_COLUMNS)}

\* C10: a run of init_db after the first, or on a table that has the
\* session_id column, raises nothing and leaves columns and rows as they were,
\* the five columns each once.
C10_InitDbIdempotent ==
    [][(inits' # inits /\ (inits >= 1 \/ (db.exists /\ HasColumn(db, "session_id"))))
       => /\ ~initRaised'
          /\ db' = db
          /\ ColumnsOnce(db')]_vars

\* init_db has run twice on the older table, which was migrated by the first
\* run and held its row all along
C10_Witness ==
    /\ inits = 2
    /\ db.columns = Append(LEGACY_COLUMNS, "session_id")
    /\ Len(db.rows) >= 1

\* the files the claim calls absent or malformed: no file, a file that is not
\* JSON, a file whose JSON is not an object of questions and answers
AbsentOrMalformed ==
    {file \in FaqFiles : ~file.exists \/ ~file.parses \/ file.type # "dict"}

\* the request of thread t is a POST without reset that is not rejected as
\* oversized, and chat() has run past its call of generate_response's FAQ check
Accepted(t) ==
    /\ Handled(t) /\ PostNoReset(t)
    /\ Len(Strip(req[t].form_input)) <= MAX_INPUT_LEN

\* C11: when faqs.json is absent or malformed, every accepted input gets no
\* match from rule_based_response, which does not raise, and is routed to the
\* generator.
C11_BadFaqFileDegradesToNoMatch ==
    \A t \in Threads :
        (/\ \E file \in AbsentOrMalformed :
                faqs = LoadFaqs(file).items /\ faqs_type = LoadFaqs(file).type
         /\ Accepted(t))
        => /\ "keys" \notin trace[t]
           /\ Turn(t)
           /\ pc[t] = "acquire" \/ "lock" \in trace[t]

\* every stored user_input has at most 512 characters
InputsBounded(rows) ==
    \A i \in 1..Len(rows) : Len(rows[i].user_input) <= MAX_INPUT_LEN

\* C12: every step (a request's, a reset's, a rejection's, init_db's) leaves
\* the rows the log held, unchanged and in order, and at most adds rows after
\* them; every stored user_input has at most 512 characters.
C12_LogIsAppendOnly ==
    /\ InputsBounded(db.rows)
    /\ [][/\ Len(db'.rows) >= Len(db.rows)
          /\ SubSeq(db'.rows, 1, Len(db.rows)) = db.rows
          /\ InputsBounded(db'.rows)]_vars

\* the older table, migrated, holds its row and after it the rows of two
\* turns, one of them with an input of 512 characters; init_db has run twice
C12_Witness ==
    /\ inits = 2
    /\ Len(db.rows) = 3
    /\ db.rows[1].user_input = "old"
    /\ \E i \in 2..3 : Len(db.rows[i].user_input) = MAX_INPUT_LEN

\* C13: when a turn returns its page, the transcript the next request of the
\* session observes is the transcript this request observed at its start
\* followed by exactly "User: <input>" and "Bot: <response>", the response
\* being the one returned.
C13_TranscriptGrowsByTurn ==
    [][\A t \in Threads :
          (pc[t] = "respond" /\ pc'[t] = "idle" /\ Turn(t))
          => cookie'[req[t].session].conversation =
                req[t].cookie.conversation
                    \o <<"User: " \o user_input[t], "Bot: " \o response[t].val>>]_vars

\* C14: the prompt built for a model call is the last 10 entries of the
\* transcript of the prior turns (the transcript the request observed at its
\* start), in order, followed by the new input once and the end token.
C14_PromptWindow ==
    \A t \in Threads :
        "model" \in trace[t]
        => prompt[t] \in {BuildPrompt(req[t].cookie.conversation, user_input[t]),
                          user_input[t] \o EOS}

IsUserEntry(e) == Len(e) >= 5 /\ SubSeq(e, 1, 5) = "User:"
IsBotEntry(e) == Len(e) >= 4 /\ SubSeq(e, 1, 4) = "Bot:"

\* a transcript of even length that alternates, from a "User:" entry to a
\* "Bot:" entry, or is empty
Alternates(conversation) ==
    /\ Len(conversation) % 2 = 0
    /\ \A i \in 1..Len(conversation) :
          IF i % 2 = 1 THEN IsUserEntry(conversation[i]) ELSE IsBotEntry(conversation[i])

\* C15: the transcript a session stores between requests has even length and
\* alternates, starting with a "User:" entry and ending with a "Bot:" entry,
\* or is empty.
C15_TranscriptShape ==
    \A s \in Sessions : Alternates(cookie[s].conversation)

\* the request of thread t is a POST with the reset flag
PostReset(t) == req[t].method = "POST" /\ req[t].reset

\* C16: a POST with the reset flag, whatever its user_input field holds, sets
\* the transcript of the session to empty and answers "Conversation reset.",
\* without calling the FAQ matcher, the model or the logger; the empty
\* transcript is what the session stores when the request returns.
C16_ResetTakesPrecedence ==
    /\ [](\A t \in Threads :
            (Handled(t) /\ PostReset(t))
            => /\ pc[t] = "respond"
               /\ sess[t].conversation = <<>>
               /\ response[t] = Some("Conversation reset.")
               /\ trace[t] = {})
    /\ [][\A t \in Threads :
            (PostReset(t) /\ pc[t] = "respond" /\ pc'[t] = "idle")
            => /\ cookie'[req[t].session].conversation = <<>>
               /\ db' = db /\ lock' = lock]_vars

\* a reset whose user_input field is longer than 512 characters has emptied a
\* transcript of two entries
C16_Witness ==
    \E t \in Threads :
        /\ pc[t] = "respond" /\ PostReset(t)
        /\ Len(Strip(req[t].form_input)) > MAX_INPUT_LEN
        /\ Len(req[t].cookie.conversation) = 2
        /\ sess[t].conversation = <<>>

\* C17: generation_lock is held only by a thread inside the model-call
\* section, never by a request that has left generate_response, after a
\* success or after a failure; and every request waiting for the lock
\* eventually acquires it.
C17_LockAlwaysGivenBack ==
    /\ [](lock # NoThread => pc[lock] = "model")
    /\ \A t \in Threads : (pc[t] = "acquire") ~> (pc[t] = "model")

\* a thread is inside the section after the model call of the other failed
C17_Witness ==
    \E t, u \in Threads :
        /\ t # u
        /\ pc[t] = "model" /\ lock = t
        /\ "raised" \in trace[u] /\ pc[u] = "bot"

\* the request of thread t is a POST without reset whose stripped input
\* exceeds 512 characters
Rejected(t) == PostNoReset(t) /\ Len(Strip(req[t].form_input)) > MAX_INPUT_LEN

\* the session as chat() sees it at its start: the one of the cookie
\* the request came with, or a new one with a fresh identifier
SessionAtStart(t) ==
    IF req[t].cookie.present
    THEN [session_id |-> req[t].cookie.session_id,
          conversation |-> req[t].cookie.conversation]
    ELSE [session_id |-> req[t].uuid, conversation |-> <<>>]

\* the step in which the request of thread t returns its page
Returns(t) == pc[t] = "respond" /\ pc'[t] = "idle"

\* C18 as stated: a rejected oversized request adds no entry to the
\* transcript, and when it returns the session stores the transcript and the
\* identifier it stored before.
C18_RejectedLeavesSessionUntouched ==
    /\ [](\A t \in Threads :
            (Handled(t) /\ Rejected(t))
            => sess[t].conversation = req[t].cookie.conversation)
    /\ [][\A t \in Threads :
            (Rejected(t) /\ Returns(t))
            => /\ cookie'[req[t].session].conversation = cookie[req[t].session].conversation
               /\ cookie'[req[t].session].session_id = cookie[req[t].session].session_id]_vars

\* C18 as amended: a rejected oversized request adds no entry to the
\* transcript; when it came with a session cookie, the stored session is left
\* as it is; when it came without one, the session it returns has a fresh
\* identifier and an empty transcript.
C18_RejectedLeavesExistingSessionUntouched ==
    /\ [](\A t \in Threads :
            (Handled(t) /\ Rejected(t))
            => pc[t] = "respond" /\ sess[t] = SessionAtStart(t))
    /\ [][\A t \in Threads :
            (Rejected(t) /\ Returns(t))
            => IF req[t].cookie.present
               THEN cookie' = cookie
               ELSE cookie'[req[t].session] =
                        [present |-> TRUE, session_id |-> req[t].uuid,
                         conversation |-> <<>>]]_vars

\* a rejected request that came with a transcript of two entries returns
C18_Witness ==
    \E t \in Threads :
        /\ pc[t] = "respond" /\ Rejected(t)
        /\ req[t].cookie.present
        /\ Len(req[t].cookie.conversation) = 2
        /\ sess[t].conversation = req[t].cookie.conversation

\* C19: the identifier a browser session stores is assigned once and never
\* changed by a later request; every log row written for requests of the
\* browser session (the model has one; the rows of the older table carry no
\* identifier, 0) carries the same identifier.
C19_SessionIdStable ==
    /\ [][\A s \in Sessions :
            cookie[s].present => cookie'[s].session_id = cookie[s].session_id]_vars
    /\ [](\A i, j \in 1..Len(db.rows) :
            (db.rows[i].session_id # 0 /\ db.rows[j].session_id # 0)
            => db.rows[i].session_id = db.rows[j].session_id)

====
